---- MODULE Spec2Model ----
(***************************************************************************)
(* pruxy: the Prometheus collector of src/pruxy.go (PrusaCollector).       *)
(*                                                                         *)
(* One scrape calls Collect, which starts three goroutines (collectInfo,   *)
(* collectStatus, collectJobInfo).  Each joins the printer address with    *)
(* its sub-path, GETs it, checks the status code, decodes the JSON body    *)
(* and sends one metric per non-nil field to the channel ch; an error      *)
(* returned by the function is sent as an invalid metric.  Collect returns *)
(* when the WaitGroup reaches zero.                                        *)
(*                                                                         *)
(* Strings whose content the code looks at (hostname, serial, state, the   *)
(* label values) are sequences of one-character strings, so that           *)
(* strings.ToLower is computed.  A JSON number is v, or v + 1/2 when frac. *)
(***************************************************************************)
EXTENDS Integers, Sequences, FiniteSets, Bags, TLC

VARIABLES addrOK, crashed, phase, pc, sent, resp, wg, ch, gets,
          hpc, inReq, outReq, upRes, written, doCalls

\* the collector's state, the proxy handler's state
cvars == <<addrOK, crashed, phase, pc, sent, resp, wg, ch, gets>>
pvars == <<hpc, inReq, outReq, upRes, written, doCalls>>
vars == <<addrOK, crashed, phase, pc, sent, resp, wg, ch, gets,
          hpc, inReq, outReq, upRes, written, doCalls>>

(***************************************************************************)
(* Bounds.                                                                 *)
(***************************************************************************)
\* Whole numbers an upstream field takes: 0..MaxVal.
MaxVal == 1
\* Scrapes (Collect calls) that may be in flight or follow one another.
NumCycles == 2
\* Requests the proxy handler serves, one after another or at once.
NumCalls == 2

Cycles == 1..NumCycles
Calls == 1..NumCalls
FirstCycle == CHOOSE c \in Cycles : \A d \in Cycles : c <= d

Fetches == {"info", "status", "job"}

(***************************************************************************)
(* net/http status codes the code names.                                   *)
(***************************************************************************)
StatusOK == 200
StatusNoContent == 204

(***************************************************************************)
(* Strings.                                                                *)
(***************************************************************************)
Upper == <<"A", "B", "C", "D", "E", "F", "G", "H", "I", "J", "K", "L", "M",
           "N", "O", "P", "Q", "R", "S", "T", "U", "V", "W", "X", "Y", "Z">>
Lower == <<"a", "b", "c", "d", "e", "f", "g", "h", "i", "j", "k", "l", "m",
           "n", "o", "p", "q", "r", "s", "t", "u", "v", "w", "x", "y", "z">>

ToLowerChar(x) ==
    IF \E i \in DOMAIN Upper : Upper[i] = x
    THEN Lower[CHOOSE i \in DOMAIN Upper : Upper[i] = x]
    ELSE x

\* Mutant: the string is used as the printer wrote it.
NoLower(s) == s

\* strings.ToLower
ToLower(s) == [i \in DOMAIN s |-> ToLowerChar(s[i])]

EmptyString == << >>

(***************************************************************************)
(* JSON values of a response body.  An object is a function from the keys  *)
(* the decoder looks for to values; JAbsent is a key the body omits.       *)
(***************************************************************************)
JAbsent == [k |-> "absent"]
JNull == [k |-> "null"]
JNum(n) == [k |-> "num", v |-> n, frac |-> FALSE]
JFrac(n) == [k |-> "num", v |-> n, frac |-> TRUE]
JStr(s) == [k |-> "str", s |-> s]
JObj(o) == [k |-> "obj", o |-> o]
\* A body that is no JSON document (syntax error, empty body).
Malformed == [k |-> "malformed"]

(***************************************************************************)
(* The decoded Go values: a pointer is nil or points to a number.          *)
(***************************************************************************)
NilPtr == [nil |-> TRUE]
Ptr(v, frac) == [nil |-> FALSE, v |-> v, frac |-> frac]

\* the float64 a metric carries: *p of a *float64, float64(*p) of an *int
Float64(p) == [v |-> p.v, frac |-> p.frac]
One == [v |-> 1, frac |-> FALSE]

(***************************************************************************)
(* encoding/json, Decoder.Decode into a struct: a key that is omitted or   *)
(* null leaves the field at its zero value (nil, ""); a value of another   *)
(* JSON type, or a fractional number for an int, is an error.              *)
(***************************************************************************)
DecodeField(type, j) ==
    CASE j.k \in {"absent", "null"} ->
           [ok |-> TRUE, val |-> IF type = "string" THEN EmptyString ELSE NilPtr]
      [] j.k = "num" /\ type = "*float64" ->
           [ok |-> TRUE, val |-> Ptr(j.v, j.frac)]
      [] j.k = "num" /\ type = "*int" /\ ~j.frac ->
           [ok |-> TRUE, val |-> Ptr(j.v, FALSE)]
      [] j.k = "str" /\ type = "string" ->
           [ok |-> TRUE, val |-> j.s]
      [] OTHER -> [ok |-> FALSE, val |-> NilPtr]

ZeroValue(types) ==
    [key \in DOMAIN types |-> IF types[key] = "string" THEN EmptyString ELSE NilPtr]

DecodeStruct(types, j) ==
    CASE j.k \in {"absent", "null"} -> [ok |-> TRUE, val |-> ZeroValue(types)]
      [] j.k = "obj" ->
           LET r == [key \in DOMAIN types |-> DecodeField(types[key], j.o[key])]
           IN  [ok |-> \A key \in DOMAIN types : r[key].ok,
                val |-> [key \in DOMAIN types |-> r[key].val]]
      [] OTHER -> [ok |-> FALSE, val |-> ZeroValue(types)]

\* type PrinterInfo
PrinterInfo ==
    [hostname |-> "string", serial |-> "string",
     nozzle_diameter |-> "*float64", min_extrusion_temp |-> "*int"]

\* type PrinterStatus
PrinterStatus ==
    [state |-> "string",
     temp_nozzle |-> "*float64", target_nozzle |-> "*float64",
     temp_bed |-> "*float64", target_bed |-> "*float64",
     axis_x |-> "*float64", axis_y |-> "*float64", axis_z |-> "*float64",
     flow |-> "*int", speed |-> "*int",
     fan_hotend |-> "*int", fan_print |-> "*int"]

\* type JobInfo
JobInfo ==
    [state |-> "string", progress |-> "*float64",
     time_remaining |-> "*int", time_printing |-> "*int"]

\* type Status: the printer status sits under the key "printer".
DecodeStatus(j) ==
    CASE j.k \in {"absent", "null"} -> [ok |-> TRUE, val |-> ZeroValue(PrinterStatus)]
      [] j.k = "obj" -> DecodeStruct(PrinterStatus, j.o.printer)
      [] OTHER -> [ok |-> FALSE, val |-> ZeroValue(PrinterStatus)]

(***************************************************************************)
(* Errors and metrics.                                                     *)
(***************************************************************************)
NoErr == [kind |-> "nil"]
\* the error of client.Get
GetErr(why) == [kind |-> "get", why |-> why]
\* fmt.Errorf("status code: %d", res.StatusCode)
StatusErr(code) == [kind |-> "status code", code |-> code]
\* the error of Decoder.Decode
DecodeErr == [kind |-> "decode"]

\* prometheus.MustNewConstMetric(NewDesc(name, _, labelNames, nil), GaugeValue, value, labelValues...)
Gauge(name, labels, value) ==
    [kind |-> "gauge", name |-> name, labels |-> labels, value |-> value]

\* prometheus.NewInvalidMetric(NewDesc("prusa_error", _, nil, nil), err)
InvalidMetric(err) ==
    [kind |-> "invalid", name |-> "prusa_error", labels |-> {}, err |-> err]

\* Mutant: the field is a plain number, not a pointer: nil is sent as 0.
IfSetOrZero(p, name, labels) ==
    <<Gauge(name, labels, IF p.nil THEN [v |-> 0, frac |-> FALSE] ELSE Float64(p))>>

\* Mutant: a zero is taken for "not set" and dropped.
IfSetAndNonZero(p, name, labels) ==
    IF p.nil \/ (p.v = 0 /\ ~p.frac) THEN << >> ELSE <<Gauge(name, labels, Float64(p))>>

\* Mutant: the number is sent as a label of the metric too.
IfSetWithValueLabel(p, name, labels) ==
    IF p.nil THEN << >>
    ELSE <<Gauge(name,
                 labels \cup {<<"value", IF p.v = 0 THEN <<"0">> ELSE <<"1">> >>},
                 Float64(p))>>

\* if p != nil { ch <- MustNewConstMetric(desc, GaugeValue, *p, labelValues...) }
IfSet(p, name, labels) ==
    IF p.nil THEN << >> ELSE <<Gauge(name, labels, Float64(p))>>

Returns(out, err) == [out |-> out, err |-> err]

Nozzle == <<"n", "o", "z", "z", "l", "e">>
Bed == <<"b", "e", "d">>
Hotend == <<"h", "o", "t", "e", "n", "d">>
PrintFan == <<"p", "r", "i", "n", "t">>

(***************************************************************************)
(* The three fetch functions, from the response of client.Get on: what     *)
(* each sends to ch, in order, and the error it returns.  Every return of  *)
(* an error comes before the first send.                                   *)
(***************************************************************************)
\* Mutant: every 2xx status is taken for a success.
collectInfoAny2xx(res) ==
    IF ~res.ok THEN Returns(<< >>, GetErr(res.why))
    ELSE IF res.code < 200 \/ res.code >= 300 THEN Returns(<< >>, StatusErr(res.code))
    ELSE LET d == DecodeStruct(PrinterInfo, res.body) IN
         IF ~d.ok THEN Returns(<< >>, DecodeErr)
         ELSE LET info == d.val IN
              Returns(<<Gauge("prusa_printer_info",
                              {<<"hostname", info.hostname>>, <<"serial", info.serial>>},
                              One)>>
                      \o IfSet(info.nozzle_diameter, "prusa_nozzle_diameter_millimeters", {})
                      \o IfSet(info.min_extrusion_temp, "prusa_min_extrusion_temperature_celsius", {}),
                      NoErr)

collectInfo(res) ==
    IF ~res.ok THEN Returns(<< >>, GetErr(res.why))
    ELSE IF res.code # StatusOK THEN Returns(<< >>, StatusErr(res.code))
    ELSE LET d == DecodeStruct(PrinterInfo, res.body) IN
         IF ~d.ok THEN Returns(<< >>, DecodeErr)
         ELSE LET info == d.val IN
              Returns(<<Gauge("prusa_printer_info",
                              {<<"hostname", info.hostname>>, <<"serial", info.serial>>},
                              One)>>
                      \o IfSet(info.nozzle_diameter, "prusa_nozzle_diameter_millimeters", {})
                      \o IfSet(info.min_extrusion_temp, "prusa_min_extrusion_temperature_celsius", {}),
                      NoErr)

collectStatus(res) ==
    IF ~res.ok THEN Returns(<< >>, GetErr(res.why))
    ELSE IF res.code # StatusOK THEN Returns(<< >>, StatusErr(res.code))
    ELSE LET d == DecodeStatus(res.body) IN
         IF ~d.ok THEN Returns(<< >>, DecodeErr)
         ELSE LET printerStatus == d.val IN
              Returns(<<Gauge("prusa_printer_state",
                              {<<"state", ToLower(printerStatus.state)>>}, One)>>
                      \o IfSet(printerStatus.temp_nozzle, "prusa_temperature_celsius", {<<"sensor", Nozzle>>})
                      \o IfSet(printerStatus.target_nozzle, "prusa_target_temperature_celsius", {<<"sensor", Nozzle>>})
                      \o IfSet(printerStatus.temp_bed, "prusa_temperature_celsius", {<<"sensor", Bed>>})
                      \o IfSet(printerStatus.target_bed, "prusa_target_temperature_celsius", {<<"sensor", Bed>>})
                      \o IfSet(printerStatus.axis_x, "prusa_axis_position", {<<"axis", <<"x">> >>})
                      \o IfSet(printerStatus.axis_y, "prusa_axis_position", {<<"axis", <<"y">> >>})
                      \o IfSet(printerStatus.axis_z, "prusa_axis_position", {<<"axis", <<"z">> >>})
                      \o IfSet(printerStatus.flow, "prusa_flow_percent", {})
                      \o IfSet(printerStatus.speed, "prusa_speed_percent", {})
                      \o IfSet(printerStatus.fan_hotend, "prusa_fan_speed_rpm", {<<"fan", Hotend>>})
                      \o IfSet(printerStatus.fan_print, "prusa_fan_speed_rpm", {<<"fan", PrintFan>>}),
                      NoErr)

\* Mutant: 204 is handled like every other status that is not 200.
collectJobInfoNo204(res) ==
    IF ~res.ok THEN Returns(<< >>, GetErr(res.why))
    ELSE IF res.code # StatusOK THEN Returns(<< >>, StatusErr(res.code))
    ELSE LET d == DecodeStruct(JobInfo, res.body) IN
         IF ~d.ok THEN Returns(<< >>, DecodeErr)
         ELSE LET jobInfo == d.val IN
              Returns(<<Gauge("prusa_job_state",
                              {<<"state", ToLower(jobInfo.state)>>}, One)>>
                      \o IfSet(jobInfo.progress, "prusa_job_progress_percent", {})
                      \o IfSet(jobInfo.time_remaining, "prusa_job_time_remaining_seconds", {})
                      \o IfSet(jobInfo.time_printing, "prusa_job_time_printing_seconds", {}),
                      NoErr)

collectJobInfo(res) ==
    IF ~res.ok THEN Returns(<< >>, GetErr(res.why))
    ELSE IF res.code = StatusNoContent THEN Returns(<< >>, NoErr)
    ELSE IF res.code # StatusOK THEN Returns(<< >>, StatusErr(res.code))
    ELSE LET d == DecodeStruct(JobInfo, res.body) IN
         IF ~d.ok THEN Returns(<< >>, DecodeErr)
         ELSE LET jobInfo == d.val IN
              Returns(<<Gauge("prusa_job_state",
                              {<<"state", ToLower(jobInfo.state)>>}, One)>>
                      \o IfSet(jobInfo.progress, "prusa_job_progress_percent", {})
                      \o IfSet(jobInfo.time_remaining, "prusa_job_time_remaining_seconds", {})
                      \o IfSet(jobInfo.time_printing, "prusa_job_time_printing_seconds", {}),
                      NoErr)

\* the function a goroutine of Collect runs
Run(f, res) ==
    CASE f = "info" -> collectInfo(res)
      [] f = "status" -> collectStatus(res)
      [] f = "job" -> collectJobInfo(res)

(***************************************************************************)
(* What the printer may answer.  The numeric keys of a body take, key by   *)
(* key, the values omitted, null, 0 .. MaxVal: body number k gives the     *)
(* i-th key the (i + k)-th of them, so that every key takes every value    *)
(* next to keys that take the others.                                      *)
(***************************************************************************)
RawNums == <<JAbsent, JNull>> \o [i \in 1..(MaxVal + 1) |-> JNum(i - 1)]
RawStrs == <<JStr(<<"I", "D", "L", "E">>), JAbsent,
             JStr(<<"P", "r", "i", "n", "t", "i", "n", "g">>), JNull,
             JStr(<<"m", "k", "4">>)>>

InfoKeys == <<"hostname", "serial", "nozzle_diameter", "min_extrusion_temp">>
StatusKeys == <<"state", "temp_nozzle", "target_nozzle", "temp_bed", "target_bed",
                "axis_x", "axis_y", "axis_z", "flow", "speed", "fan_hotend", "fan_print">>
JobKeys == <<"state", "progress", "time_remaining", "time_printing">>

Rot(list, n) == list[(n % Len(list)) + 1]

RotObject(types, keys, k) ==
    JObj([key \in DOMAIN types |->
            LET i == CHOOSE n \in DOMAIN keys : keys[n] = key
            IN  IF types[key] = "string" THEN Rot(RawStrs, i + k) ELSE Rot(RawNums, i + k)])

\* every number present: the floats fractional, the ints whole or (fracInt) fractional too
FullObject(types, fracInt) ==
    JObj([key \in DOMAIN types |->
            CASE types[key] = "string" -> JStr(<<"B", "u", "s", "y">>)
              [] types[key] = "*float64" -> JFrac(0)
              [] OTHER -> IF fracInt THEN JFrac(0) ELSE JNum(0)])

\* a string where a number belongs
WrongType(types) ==
    JObj([key \in DOMAIN types |-> IF types[key] = "string" THEN JAbsent ELSE JStr(<<"x">>)])

Wrap(f, o) == IF f = "status" THEN JObj([printer |-> o]) ELSE o

TypesOf(f) ==
    CASE f = "info" -> PrinterInfo [] f = "status" -> PrinterStatus [] f = "job" -> JobInfo
KeysOf(f) ==
    CASE f = "info" -> InfoKeys [] f = "status" -> StatusKeys [] f = "job" -> JobKeys

Bodies(f) ==
    {Wrap(f, RotObject(TypesOf(f), KeysOf(f), k)) : k \in 0..(Len(RawNums) - 1)}
    \cup {Wrap(f, FullObject(TypesOf(f), b)) : b \in BOOLEAN}
    \cup {Wrap(f, WrongType(TypesOf(f))), Malformed}

NetErr(why) == [ok |-> FALSE, why |-> why]
Response(code, body) == [ok |-> TRUE, code |-> code, body |-> body]

StatusCodes == {StatusOK, 201, StatusNoContent, 500}

Responses(f) ==
    {NetErr("timeout")}
    \cup {Response(StatusOK, b) : b \in Bodies(f)}
    \cup {Response(code, Malformed) : code \in StatusCodes \ {StatusOK}}

\* The answers of the runs with several scrapes: the info answer changes from
\* one GET to the next (two hostnames), the status GET times out, no job runs.
Host(name) ==
    JObj([hostname |-> JStr(name), serial |-> JAbsent,
          nozzle_diameter |-> JAbsent, min_extrusion_temp |-> JAbsent])

FewResponses(f) ==
    CASE f = "info" -> {Response(StatusOK, Host(<<"m", "k", "4">>)),
                        Response(StatusOK, Host(<<"M", "I", "N", "I">>))}
      [] f = "status" -> {NetErr("timeout")}
      [] f = "job" -> {Response(StatusNoContent, Malformed)}

(***************************************************************************)
(* State.                                                                  *)
(*   addrOK    url.JoinPath parses the configured address                  *)
(*   crashed   a goroutine panicked: the process is gone                   *)
(*   phase[c]  scrape c: "idle", "running" (in Collect), "returned"        *)
(*   pc[c][f]  goroutine f of scrape c: "idle", "start", "emit" (it holds  *)
(*             the response), "reported" (its error is sent), "done"       *)
(*   sent[c][f] metrics f has sent so far                                  *)
(*   resp[c][f] the response f got                                         *)
(*   wg[c]     the WaitGroup's counter                                     *)
(*   ch[c]     what the channel of scrape c was handed: a bag of           *)
(*             [by: the sending goroutine, cyc: the scrape whose GET       *)
(*             fetched the response, m: the metric]                        *)
(*   gets[c][f] GETs f has issued                                          *)
(***************************************************************************)
\* hpc[p]     proxy call p: "idle", "serving" (ServeHTTP has the request),
\*            "pending" (in client.Do), "done" (ServeHTTP returned)
\* inReq[p]   the inbound request
\* outReq[p]  the request handed to client.Do
\* upRes[p]   what client.Do returned
\* written[p] what ServeHTTP wrote to the ResponseWriter
\* doCalls[p] calls of client.Do by call p
None == [some |-> FALSE]
NoResp == [got |-> FALSE]
Got(c, res) == [got |-> TRUE, cyc |-> c, res |-> res]

Init ==
    /\ addrOK \in BOOLEAN
    /\ crashed = FALSE
    /\ phase = [c \in Cycles |-> "idle"]
    /\ pc = [c \in Cycles |-> [f \in Fetches |-> "idle"]]
    /\ sent = [c \in Cycles |-> [f \in Fetches |-> 0]]
    /\ resp = [c \in Cycles |-> [f \in Fetches |-> NoResp]]
    /\ wg = [c \in Cycles |-> 0]
    /\ ch = [c \in Cycles |-> EmptyBag]
    /\ gets = [c \in Cycles |-> [f \in Fetches |-> 0]]
    /\ hpc = [p \in Calls |-> "idle"]
    /\ inReq = [p \in Calls |-> None]
    /\ outReq = [p \in Calls |-> None]
    /\ upRes = [p \in Calls |-> None]
    /\ written = [p \in Calls |-> None]
    /\ doCalls = [p \in Calls |-> 0]

\* what goroutine f of scrape c sends and returns, from the response it holds
Result(c, f) == Run(f, resp[c][f].res)

\* Mutant: the sink is a plain slice: an append that meets another
\* goroutine's append loses what that goroutine has written.
SendToSlice(c, f, m) ==
    LET mine == [by |-> f, cyc |-> resp[c][f].cyc, m |-> m]
        others == {e \in BagToSet(ch[c]) :
                     e.by # f /\ pc[c][e.by] = "emit"}
        kept == [e \in BagToSet(ch[c]) \ others |-> ch[c][e]]
    IN  ch' = [ch EXCEPT ![c] = kept (+) SetToBag({mine})]

\* ch <- m
SendTo(c, f, m) ==
    ch' = [ch EXCEPT ![c] = @ (+) SetToBag({[by |-> f, cyc |-> resp[c][f].cyc, m |-> m]})]

\* Collect: wg.Add(1) and go func(f) for the three functions
Collect(c) ==
    /\ ~crashed
    /\ phase[c] = "idle"
    /\ phase' = [phase EXCEPT ![c] = "running"]
    /\ pc' = [pc EXCEPT ![c] = [f \in Fetches |-> "start"]]
    /\ wg' = [wg EXCEPT ![c] = Cardinality(Fetches)]
    /\ UNCHANGED <<addrOK, crashed, sent, resp, ch, gets>>
    /\ UNCHANGED pvars

\* url.JoinPath fails: panic(err) in a goroutine ends the process
JoinPathPanic(c, f) ==
    /\ ~crashed
    /\ pc[c][f] = "start"
    /\ ~addrOK
    /\ crashed' = TRUE
    /\ UNCHANGED <<addrOK, phase, pc, sent, resp, wg, ch, gets>>
    /\ UNCHANGED pvars

\* Mutant: the response is kept in a field of the collector, which all
\* scrapes share.
GetIntoSharedField(c, f, R) ==
    /\ ~crashed
    /\ pc[c][f] = "start"
    /\ addrOK
    /\ \E res \in R :
         resp' = [d \in Cycles |-> [resp[d] EXCEPT ![f] = Got(c, res)]]
    /\ gets' = [gets EXCEPT ![c][f] = @ + 1]
    /\ pc' = [pc EXCEPT ![c][f] = "emit"]
    /\ UNCHANGED <<addrOK, crashed, phase, sent, wg, ch>>
    /\ UNCHANGED pvars

\* Mutant: a response an earlier scrape got is used again, without a GET.
GetOrCached(c, f, R) ==
    /\ ~crashed
    /\ pc[c][f] = "start"
    /\ addrOK
    /\ IF \E d \in Cycles : resp[d][f].got
       THEN /\ \E d \in Cycles :
                 /\ resp[d][f].got
                 /\ resp' = [resp EXCEPT ![c][f] = resp[d][f]]
            /\ UNCHANGED gets
       ELSE /\ \E res \in R :
                 resp' = [resp EXCEPT ![c][f] = Got(c, res)]
            /\ gets' = [gets EXCEPT ![c][f] = @ + 1]
    /\ pc' = [pc EXCEPT ![c][f] = "emit"]
    /\ UNCHANGED <<addrOK, crashed, phase, sent, wg, ch>>
    /\ UNCHANGED pvars

\* url.JoinPath succeeds; c.client.Get(uri) answers res
Get(c, f, R) ==
    /\ ~crashed
    /\ pc[c][f] = "start"
    /\ addrOK
    /\ \E res \in R :
         resp' = [resp EXCEPT ![c][f] = Got(c, res)]
    /\ gets' = [gets EXCEPT ![c][f] = @ + 1]
    /\ pc' = [pc EXCEPT ![c][f] = "emit"]
    /\ UNCHANGED <<addrOK, crashed, phase, sent, wg, ch>>
    /\ UNCHANGED pvars

\* the next ch <- metric of the function
Send(c, f) ==
    /\ ~crashed
    /\ pc[c][f] = "emit"
    /\ sent[c][f] < Len(Result(c, f).out)
    /\ SendTo(c, f, Result(c, f).out[sent[c][f] + 1])
    /\ sent' = [sent EXCEPT ![c][f] = @ + 1]
    /\ UNCHANGED <<addrOK, crashed, phase, pc, resp, wg, gets>>
    /\ UNCHANGED pvars

\* Mutant: the error metric is sent whether or not f returned an error.
ReportErrorAlways(c, f) ==
    /\ ~crashed
    /\ pc[c][f] = "emit"
    /\ sent[c][f] = Len(Result(c, f).out)
    /\ SendTo(c, f, InvalidMetric(Result(c, f).err))
    /\ pc' = [pc EXCEPT ![c][f] = "reported"]
    /\ UNCHANGED <<addrOK, crashed, phase, sent, resp, wg, gets>>
    /\ UNCHANGED pvars

\* Mutant: the error is logged and nothing is sent for it.
ReportErrorLogOnly(c, f) ==
    /\ ~crashed
    /\ pc[c][f] = "emit"
    /\ sent[c][f] = Len(Result(c, f).out)
    /\ Result(c, f).err # NoErr
    /\ pc' = [pc EXCEPT ![c][f] = "reported"]
    /\ UNCHANGED <<addrOK, crashed, phase, sent, resp, wg, ch, gets>>
    /\ UNCHANGED pvars

\* if err := f(ch); err != nil { ch <- NewInvalidMetric(desc, err) }
ReportError(c, f) ==
    /\ ~crashed
    /\ pc[c][f] = "emit"
    /\ sent[c][f] = Len(Result(c, f).out)
    /\ Result(c, f).err # NoErr
    /\ SendTo(c, f, InvalidMetric(Result(c, f).err))
    /\ pc' = [pc EXCEPT ![c][f] = "reported"]
    /\ UNCHANGED <<addrOK, crashed, phase, sent, resp, wg, gets>>
    /\ UNCHANGED pvars

\* defer wg.Done()
Done(c, f) ==
    /\ ~crashed
    /\ \/ pc[c][f] = "reported"
       \/ /\ pc[c][f] = "emit"
          /\ sent[c][f] = Len(Result(c, f).out)
          /\ Result(c, f).err = NoErr
    /\ wg' = [wg EXCEPT ![c] = @ - 1]
    /\ pc' = [pc EXCEPT ![c][f] = "done"]
    /\ UNCHANGED <<addrOK, crashed, phase, sent, resp, ch, gets>>
    /\ UNCHANGED pvars

\* Mutant: Collect returns as soon as one goroutine is done.
WaitForFirst(c) ==
    /\ ~crashed
    /\ phase[c] = "running"
    /\ wg[c] < Cardinality(Fetches)
    /\ phase' = [phase EXCEPT ![c] = "returned"]
    /\ UNCHANGED <<addrOK, crashed, pc, sent, resp, wg, ch, gets>>
    /\ UNCHANGED pvars

\* wg.Wait() returns, and Collect with it
Wait(c) ==
    /\ ~crashed
    /\ phase[c] = "running"
    /\ wg[c] = 0
    /\ phase' = [phase EXCEPT ![c] = "returned"]
    /\ UNCHANGED <<addrOK, crashed, pc, sent, resp, wg, ch, gets>>
    /\ UNCHANGED pvars

\* one scrape, any answers
Next ==
    \/ Collect(FirstCycle)
    \/ Wait(FirstCycle)
    \/ \E f \in Fetches :
         \/ JoinPathPanic(FirstCycle, f)
         \/ Get(FirstCycle, f, Responses(f))
         \/ Send(FirstCycle, f)
         \/ ReportError(FirstCycle, f)
         \/ Done(FirstCycle, f)

Spec == Init /\ [][Next]_vars

\* One scrape under the Go scheduler: a goroutine that can take its next
\* step takes it in the end (a GET returns, at the latest at the client's
\* timeout; the channel is read by the registry's Gather, so a send goes
\* through), and so does wg.Wait.
SpecFair ==
    /\ Spec
    /\ WF_vars(Wait(FirstCycle))
    /\ \A f \in Fetches :
         /\ WF_vars(JoinPathPanic(FirstCycle, f))
         /\ WF_vars(Get(FirstCycle, f, Responses(f)))
         /\ WF_vars(Send(FirstCycle, f))
         /\ WF_vars(ReportError(FirstCycle, f))
         /\ WF_vars(Done(FirstCycle, f))

\* several scrapes, one after another or overlapping, few answers
NextScrapes ==
    \E c \in Cycles :
      \/ Collect(c)
      \/ Wait(c)
      \/ \E f \in Fetches :
           \/ JoinPathPanic(c, f)
           \/ Get(c, f, FewResponses(f))
           \/ Send(c, f)
           \/ ReportError(c, f)
           \/ Done(c, f)

SpecScrapes == Init /\ [][NextScrapes]_vars

\* ---------------------------------------------------------------------
\* ProxyHandler: every path outside /metrics is forwarded to the printer.

StatusInternalServerError == 500

\* A header map: a set of <<name, value>> pairs with one pair per name.
NoHeader == {}
SetHeader(h, k, v) == {kv \in h : kv[1] # k} \cup {<<k, v>>}

RECURSIVE CopyHeader(_, _)
\* for k, v := range res.Header { w.Header()[k] = v }
CopyHeader(h, from) ==
    IF from = {} THEN h
    ELSE LET kv == CHOOSE x \in from : TRUE
         IN  CopyHeader(SetHeader(h, kv[1], kv[2]), from \ {kv})

\* r: the inbound request. readable is FALSE when reading r.Body fails
\* (the caller went away in the middle of the body).
Request(method, path, header, body, readable) ==
    [method |-> method, path |-> path, header |-> header, body |-> body,
     readable |-> readable]

\* net/http's validMethod: a non-empty token, so no space in it.
ValidMethod(m) == m \in {"GET", "POST", "DELETE"}

Requests ==
    { Request("GET", <<"api", "v1", "status">>, NoHeader, <<>>, TRUE),
      Request("POST", <<"api", "v1", "files">>,
              {<<"Content-Type", "text/x.gcode">>}, <<"G28">>, TRUE),
      Request("POST", <<"api", "v1", "files">>,
              {<<"Content-Type", "text/x.gcode">>}, <<"G28">>, FALSE),
      Request("BAD METHOD", <<"api">>, NoHeader, <<>>, TRUE) }

\* url.JoinPath(h.address, r.URL.Path)
JoinPath(base, path) == [base |-> base, path |-> path]

\* http.NewRequest(method, uri, body): a fresh request with an empty header.
NewRequest(method, uri, body) ==
    [some |-> TRUE, method |-> method, uri |-> uri, header |-> NoHeader,
     body |-> body]

\* What client.Do returns: an error, or the printer's response.
DoErr(why) == [some |-> TRUE, ok |-> FALSE, why |-> why]
DoRes(code, header, body) ==
    [some |-> TRUE, ok |-> TRUE, code |-> code, header |-> header, body |-> body]

UpstreamAnswers ==
    { DoErr("connection refused"),
      DoRes(StatusOK, {<<"Content-Type", "application/json">>}, <<"{}">>),
      DoRes(404, NoHeader, <<"Not Found">>),
      DoRes(StatusInternalServerError, {<<"Retry-After", "1">>}, <<"busy">>) }

\* What ServeHTTP has written to w.
Written(code, header, body) ==
    [some |-> TRUE, code |-> code, header |-> header, body |-> body]

\* http.Error(w, error, code): plain-text headers, the text and a newline.
Error(error, code) ==
    Written(code,
            SetHeader(SetHeader(NoHeader, "Content-Type", "text/plain; charset=utf-8"),
                      "X-Content-Type-Options", "nosniff"),
            <<error, "\n">>)

\* w.Header()[k] = v for each header; w.WriteHeader; io.Copy(w, res.Body)
RelayStatusOK(res) == Written(StatusOK, CopyHeader(NoHeader, res.header), res.body)
Relay(res) == Written(res.code, CopyHeader(NoHeader, res.header), res.body)

\* The http server hands a request to ProxyHandler.ServeHTTP.
Serve(p) ==
    /\ ~crashed
    /\ hpc[p] = "idle"
    /\ \E r \in Requests : inReq' = [inReq EXCEPT ![p] = r]
    /\ hpc' = [hpc EXCEPT ![p] = "serving"]
    /\ UNCHANGED <<outReq, upRes, written, doCalls>>
    /\ UNCHANGED cvars

\* ServeHTTP up to the call of client.Do: join the URL, read the body,
\* build the outbound request; each failure answers 500 and returns.
ForwardAnyway(p) ==
    /\ ~crashed
    /\ hpc[p] = "serving"
    /\ LET r == inReq[p]
       IN  IF ~addrOK \/ ~r.readable \/ ~ValidMethod(r.method)
           THEN /\ written' = [written EXCEPT ![p] =
                       Error("failed", StatusInternalServerError)]
                /\ outReq' = [outReq EXCEPT ![p] =
                       NewRequest(r.method, JoinPath("address", r.path), r.body)]
                /\ doCalls' = [doCalls EXCEPT ![p] = @ + 1]
                /\ hpc' = [hpc EXCEPT ![p] = "done"]
           ELSE /\ outReq' = [outReq EXCEPT ![p] =
                       NewRequest(r.method, JoinPath("address", r.path), r.body)]
                /\ doCalls' = [doCalls EXCEPT ![p] = @ + 1]
                /\ hpc' = [hpc EXCEPT ![p] = "pending"]
                /\ UNCHANGED written
    /\ UNCHANGED <<inReq, upRes>>
    /\ UNCHANGED cvars
Forward(p) ==
    /\ ~crashed
    /\ hpc[p] = "serving"
    /\ LET r == inReq[p]
           fail(error) ==
               /\ written' = [written EXCEPT ![p] =
                      Error(error, StatusInternalServerError)]
               /\ hpc' = [hpc EXCEPT ![p] = "done"]
               /\ UNCHANGED <<outReq, doCalls>>
       IN  IF ~addrOK THEN fail("parse address")
           ELSE IF ~r.readable THEN fail("read body")
           ELSE IF ~ValidMethod(r.method) THEN fail("invalid method")
           ELSE /\ outReq' = [outReq EXCEPT ![p] =
                       NewRequest(r.method, JoinPath("address", r.path), r.body)]
                /\ doCalls' = [doCalls EXCEPT ![p] = @ + 1]
                /\ hpc' = [hpc EXCEPT ![p] = "pending"]
                /\ UNCHANGED written
    /\ UNCHANGED <<inReq, upRes>>
    /\ UNCHANGED cvars

\* client.Do returns; its error answers 500, its response is relayed.
ReplyOrRetry(p) ==
    /\ ~crashed
    /\ hpc[p] = "pending"
    /\ \E res \in UpstreamAnswers :
         /\ upRes' = [upRes EXCEPT ![p] = res]
         /\ IF ~res.ok /\ doCalls[p] < 2
            THEN /\ doCalls' = [doCalls EXCEPT ![p] = @ + 1]
                 /\ UNCHANGED <<written, hpc>>
            ELSE /\ written' = [written EXCEPT ![p] =
                        IF res.ok THEN Relay(res)
                        ELSE Error(res.why, StatusInternalServerError)]
                 /\ hpc' = [hpc EXCEPT ![p] = "done"]
                 /\ UNCHANGED doCalls
    /\ UNCHANGED <<inReq, outReq>>
    /\ UNCHANGED cvars
Reply(p) ==
    /\ ~crashed
    /\ hpc[p] = "pending"
    /\ \E res \in UpstreamAnswers :
         /\ upRes' = [upRes EXCEPT ![p] = res]
         /\ written' = [written EXCEPT ![p] =
                IF res.ok THEN Relay(res)
                ELSE Error(res.why, StatusInternalServerError)]
    /\ hpc' = [hpc EXCEPT ![p] = "done"]
    /\ UNCHANGED <<inReq, outReq, doCalls>>
    /\ UNCHANGED cvars

\* The proxy handler alone: NumCalls requests, served at once.
NextProxy ==
    \E p \in Calls :
        \/ Serve(p)
        \/ Forward(p)
        \/ Reply(p)

SpecProxy == Init /\ [][NextProxy]_vars

(***************************************************************************)
(* The mapping table of the specification (section 4.2), one row per       *)
(* optional field: the goroutine that fetches it, its JSON key, the metric *)
(* name and the labels.  The table names the metrics without the           *)
(* exporter's namespace, which the code writes in front: "prusa_".         *)
(***************************************************************************)
Row(f, key, name, labels) == [f |-> f, key |-> key, name |-> name, labels |-> labels]

OptionalRows ==
    {Row("info", "nozzle_diameter", "nozzle_diameter_millimeters", {}),
     Row("info", "min_extrusion_temp", "min_extrusion_temperature_celsius", {}),
     Row("status", "temp_nozzle", "temperature_celsius", {<<"sensor", Nozzle>>}),
     Row("status", "target_nozzle", "target_temperature_celsius", {<<"sensor", Nozzle>>}),
     Row("status", "temp_bed", "temperature_celsius", {<<"sensor", Bed>>}),
     Row("status", "target_bed", "target_temperature_celsius", {<<"sensor", Bed>>}),
     Row("status", "axis_x", "axis_position", {<<"axis", <<"x">> >>}),
     Row("status", "axis_y", "axis_position", {<<"axis", <<"y">> >>}),
     Row("status", "axis_z", "axis_position", {<<"axis", <<"z">> >>}),
     Row("status", "flow", "flow_percent", {}),
     Row("status", "speed", "speed_percent", {}),
     Row("status", "fan_hotend", "fan_speed_rpm", {<<"fan", Hotend>>}),
     Row("status", "fan_print", "fan_speed_rpm", {<<"fan", PrintFan>>}),
     Row("job", "progress", "job_progress_percent", {}),
     Row("job", "time_remaining", "job_time_remaining_seconds", {}),
     Row("job", "time_printing", "job_time_printing_seconds", {})}

Namespaced(name) == "prusa_" \o name

\* the JSON value a body gives a key of goroutine f's structure (JAbsent: none)
RawOf(f, body, key) ==
    IF body.k # "obj" THEN JAbsent
    ELSE IF f # "status" THEN body.o[key]
    ELSE IF body.o.printer.k # "obj" THEN JAbsent
    ELSE body.o.printer.o[key]

\* goroutine f of scrape c got a response with a body
HasBody(c, f) == resp[c][f].got /\ resp[c][f].res.ok

\* the entries of ch[c] for a row of the table
EntriesFor(c, row) ==
    {e \in BagToSet(ch[c]) : e.m.name = Namespaced(row.name) /\ e.m.labels = row.labels}

EntriesBy(c, f) == {e \in BagToSet(ch[c]) : e.by = f}

(***************************************************************************)
(* C1: whenever the JSON a scrape received omits an optional field's key   *)
(* or gives it null, the channel of that scrape holds no metric for the    *)
(* field (at no moment of the scrape, so neither a zero nor anything else).*)
(***************************************************************************)
C1_AbsentNeverEmitted ==
    \A c \in Cycles : \A row \in OptionalRows :
       (HasBody(c, row.f)
          /\ RawOf(row.f, resp[c][row.f].res.body, row.key).k \in {"absent", "null"})
       => EntriesFor(c, row) = {}

\* a returned scrape whose status body omits one key, gives null for another
\* and a number for a third, which was sent
C1_Witness ==
    \E c \in Cycles :
       /\ phase[c] = "returned"
       /\ HasBody(c, "status")
       /\ \E r1, r2, r3 \in {r \in OptionalRows : r.f = "status"} :
            /\ resp[c]["status"].res.body.k = "obj"
            /\ resp[c]["status"].res.body.o.printer.k = "obj"
            /\ RawOf("status", resp[c]["status"].res.body, r1.key).k = "absent"
            /\ RawOf("status", resp[c]["status"].res.body, r2.key).k = "null"
            /\ RawOf("status", resp[c]["status"].res.body, r3.key).k = "num"
            /\ EntriesFor(c, r1) = {} /\ EntriesFor(c, r2) = {}
            /\ EntriesFor(c, r3) # {}

(***************************************************************************)
(* C2: once a goroutine is done, every optional field that its             *)
(* successfully decoded 200 response gives a number has exactly one        *)
(* metric in the channel: a gauge with the table's name and labels and the *)
(* number as its value, a 0 included.                                      *)
(***************************************************************************)
Decoded(f, body) ==
    IF f = "status" THEN DecodeStatus(body).ok ELSE DecodeStruct(TypesOf(f), body).ok

DecodedOK(c, f) ==
    /\ HasBody(c, f)
    /\ resp[c][f].res.code = StatusOK
    /\ Decoded(f, resp[c][f].res.body)

\* C2: a present optional field has exactly one gauge of its row, with its value.
C2_PresentEmittedOnce ==
    \A c \in Cycles : \A row \in OptionalRows :
       LET raw == RawOf(row.f, resp[c][row.f].res.body, row.key) IN
       (pc[c][row.f] = "done" /\ DecodedOK(c, row.f) /\ raw.k = "num")
       => /\ Cardinality(EntriesFor(c, row)) = 1
          /\ \A e \in EntriesFor(c, row) :
               /\ CopiesIn(e, ch[c]) = 1
               /\ e.m.kind = "gauge"
               /\ e.m.value = [v |-> raw.v, frac |-> raw.frac]

\* a returned scrape that sent a 0 for one status field, another number for a
\* second and nothing for a third, which the body omits
C2_Witness ==
    \E c \in Cycles :
       /\ phase[c] = "returned"
       /\ DecodedOK(c, "status")
       /\ \E r0, r1, r2 \in {r \in OptionalRows : r.f = "status"} :
            /\ RawOf("status", resp[c]["status"].res.body, r0.key) = JNum(0)
            /\ \E e \in EntriesFor(c, r0) : e.m.value = [v |-> 0, frac |-> FALSE]
            /\ RawOf("status", resp[c]["status"].res.body, r1.key) = JNum(1)
            /\ \E e \in EntriesFor(c, r1) : e.m.value = [v |-> 1, frac |-> FALSE]
            /\ RawOf("status", resp[c]["status"].res.body, r2.key) = JAbsent
            /\ EntriesFor(c, r2) = {}

(***************************************************************************)
(* Failure and success of a fetch, as the specification lists them         *)
(* (sections 4.2 and 7): the GET fails; the status is not 200 (for the job *)
(* fetch: neither 200 nor 204); the body does not decode.                  *)
(***************************************************************************)
FailureOf(f, res) ==
    IF ~res.ok THEN GetErr(res.why)
    ELSE IF f = "job" /\ res.code = StatusNoContent THEN NoErr
    ELSE IF res.code # StatusOK THEN StatusErr(res.code)
    ELSE IF ~Decoded(f, res.body) THEN DecodeErr
    ELSE NoErr

Failed(c, f) == resp[c][f].got /\ FailureOf(f, resp[c][f].res) # NoErr
Succeeded(c, f) == resp[c][f].got /\ FailureOf(f, resp[c][f].res) = NoErr

\* the string a body gives a key: "" when the key is omitted or null
StringOf(f, body, key) ==
    LET raw == RawOf(f, body, key) IN IF raw.k = "str" THEN raw.s ELSE EmptyString

\* the metrics of the table for a body that decoded: the row of the strings
\* (value 1) and one row per optional field that has a number
TableMetrics(f, body) ==
    {CASE f = "info" ->
            Gauge(Namespaced("printer_info"),
                  {<<"hostname", StringOf(f, body, "hostname")>>,
                   <<"serial", StringOf(f, body, "serial")>>}, One)
       [] f = "status" ->
            Gauge(Namespaced("printer_state"),
                  {<<"state", ToLower(StringOf(f, body, "state"))>>}, One)
       [] f = "job" ->
            Gauge(Namespaced("job_state"),
                  {<<"state", ToLower(StringOf(f, body, "state"))>>}, One)}
    \cup {Gauge(Namespaced(row.name), row.labels,
                [v |-> RawOf(f, body, row.key).v, frac |-> RawOf(f, body, row.key).frac]) :
            row \in {r \in OptionalRows : r.f = f /\ RawOf(f, body, r.key).k = "num"}}

ExpectedMetrics(f, res) ==
    IF FailureOf(f, res) # NoErr THEN {InvalidMetric(FailureOf(f, res))}
    ELSE IF res.code = StatusNoContent THEN {}
    ELSE TableMetrics(f, res.body)

(***************************************************************************)
(* C3: when Collect has returned, the channel holds, for each of the three *)
(* goroutines and whatever the other two met, exactly the metrics of its   *)
(* response if it succeeded and exactly one error metric if it failed,     *)
(* each once.                                                              *)
(***************************************************************************)
C3_FailuresIndependent ==
    \A c \in Cycles :
       phase[c] = "returned" =>
          /\ \A e \in BagToSet(ch[c]) : e.by \in Fetches /\ CopiesIn(e, ch[c]) = 1
          /\ \A f \in Fetches :
               /\ resp[c][f].got
               /\ {e.m : e \in EntriesBy(c, f)} = ExpectedMetrics(f, resp[c][f].res)
               /\ Cardinality(EntriesBy(c, f)) = Cardinality(ExpectedMetrics(f, resp[c][f].res))

\* info timed out, status and job decoded: one error metric of info, the
\* metrics of status and of job
C3_Witness ==
    \E c \in Cycles :
       /\ phase[c] = "returned"
       /\ Failed(c, "info") /\ ~resp[c]["info"].res.ok
       /\ DecodedOK(c, "status") /\ DecodedOK(c, "job")
       /\ Cardinality(EntriesBy(c, "info")) = 1
       /\ Cardinality(EntriesBy(c, "status")) > 1
       /\ Cardinality(EntriesBy(c, "job")) > 1

(***************************************************************************)
(* C4: Collect returns only when all three goroutines are done, each       *)
(* having sent all its metrics, and its error metric if it failed; and     *)
(* nothing is sent to the channel of a scrape that has returned.           *)
(***************************************************************************)
Finished(c, f) ==
    /\ pc[c][f] = "done"
    /\ resp[c][f].got
    /\ sent[c][f] = Len(Result(c, f).out)
    /\ Result(c, f).err # NoErr =>
         \E e \in EntriesBy(c, f) : e.m = InvalidMetric(Result(c, f).err)

\* C4: returned implies all three finished, and nothing is sent after the return.
C4_JoinBarrier ==
    /\ [](\A c \in Cycles : phase[c] = "returned" => \A f \in Fetches : Finished(c, f))
    /\ [][\A c \in Cycles : phase[c] = "returned" => ch'[c] = ch[c]]_vars

\* a returned scrape with one goroutine that failed and one that sent metrics
C4_Witness ==
    \E c \in Cycles :
       /\ phase[c] = "returned"
       /\ \E f, g \in Fetches :
            /\ Failed(c, f) /\ Succeeded(c, g)
            /\ sent[c][g] > 1
            /\ Cardinality(EntriesBy(c, g)) = sent[c][g]

(***************************************************************************)
(* C5: no failure of a scrape ends the process, for any non-empty address  *)
(* (Init leaves open whether url.JoinPath can parse it) and any answer of  *)
(* the printer.                                                            *)
(***************************************************************************)
C5_NeverCrashes == ~crashed

(***************************************************************************)
(* C6: when the job endpoint answers 204, the job goroutine ends without   *)
(* an error: the channel holds no metric sent by it, no job metric and no  *)
(* error metric of the job fetch.                                          *)
(***************************************************************************)
JobNames ==
    {Namespaced(n) : n \in {"job_state", "job_progress_percent",
                            "job_time_remaining_seconds", "job_time_printing_seconds"}}

NoContent(c) == HasBody(c, "job") /\ resp[c]["job"].res.code = StatusNoContent

\* C6: a 204 of the job endpoint yields no job metric and no error metric.
C6_NoContentIsSuccess ==
    \A c \in Cycles :
       NoContent(c) =>
          /\ pc[c]["job"] \in {"emit", "done"}
          /\ EntriesBy(c, "job") = {}
          /\ \A e \in BagToSet(ch[c]) : e.m.name \notin JobNames

\* a returned scrape whose job fetch got 204 while info and status sent metrics
C6_Witness ==
    \E c \in Cycles :
       /\ phase[c] = "returned"
       /\ NoContent(c)
       /\ EntriesBy(c, "job") = {}
       /\ DecodedOK(c, "info") /\ DecodedOK(c, "status")
       /\ EntriesBy(c, "info") # {} /\ EntriesBy(c, "status") # {}

(***************************************************************************)
(* C7: a goroutine that is done has sent an error metric exactly when its  *)
(* fetch met one of the listed failures (GET failed; status not 200, or    *)
(* for the job fetch neither 200 nor 204; body not decodable), and then    *)
(* exactly one, which carries that failure.                                *)
(***************************************************************************)
ErrorsBy(c, f) == {e \in EntriesBy(c, f) : e.m.kind = "invalid"}

\* C7: one error metric with the failure, exactly in the listed failure cases.
C7_FailureCases ==
    \A c \in Cycles : \A f \in Fetches :
       pc[c][f] = "done" =>
          IF FailureOf(f, resp[c][f].res) # NoErr
          THEN /\ Cardinality(ErrorsBy(c, f)) = 1
               /\ \A e \in ErrorsBy(c, f) :
                    /\ CopiesIn(e, ch[c]) = 1
                    /\ e.m.err = FailureOf(f, resp[c][f].res)
          ELSE ErrorsBy(c, f) = {}

\* a returned scrape: info answered 201, status a body that does not decode,
\* job 204; two error metrics, none of the job fetch
C7_Witness ==
    \E c \in Cycles :
       /\ phase[c] = "returned"
       /\ HasBody(c, "info") /\ resp[c]["info"].res.code = 201
       /\ HasBody(c, "status") /\ resp[c]["status"].res.code = StatusOK
       /\ ~Decoded("status", resp[c]["status"].res.body)
       /\ NoContent(c)
       /\ \E e \in ErrorsBy(c, "info") : e.m.err = StatusErr(201)
       /\ \E e \in ErrorsBy(c, "status") : e.m.err = DecodeErr
       /\ ErrorsBy(c, "job") = {}

(***************************************************************************)
(* C8: no two metrics handed to the channel of a scrape, error metrics     *)
(* included, have the same name and the same labels.                       *)
(***************************************************************************)
C8_NoDuplicates ==
    \A c \in Cycles : \A e1, e2 \in BagToSet(ch[c]) :
       /\ CopiesIn(e1, ch[c]) = 1
       /\ (e1.m.name = e2.m.name /\ e1.m.labels = e2.m.labels) => e1 = e2

(***************************************************************************)
(* C9: every entry of a scrape's channel was sent by a goroutine of that   *)
(* scrape from the response that scrape's own GET fetched: it is one of    *)
(* the metrics of that response.                                           *)
(***************************************************************************)
C9_ScrapesIsolated ==
    \A c \in Cycles : \A e \in BagToSet(ch[c]) :
       /\ e.cyc = c
       /\ resp[c][e.by].got /\ resp[c][e.by].cyc = c
       /\ e.m \in ExpectedMetrics(e.by, resp[c][e.by].res)

\* two scrapes in Collect at once, whose info GETs got different answers and
\* which both have sent their info metric
C9_Witness ==
    \E c, d \in Cycles :
       /\ c # d
       /\ phase[c] = "running" /\ phase[d] = "running"
       /\ resp[c]["info"].got /\ resp[d]["info"].got
       /\ resp[c]["info"].res # resp[d]["info"].res
       /\ EntriesBy(c, "info") # {} /\ EntriesBy(d, "info") # {}
       /\ pc[c]["info"] = "emit" /\ pc[d]["info"] = "emit"

(***************************************************************************)
(* C10: a goroutine issues its GET once: never twice, a failed GET         *)
(* included, and a goroutine that has a response, and so every goroutine   *)
(* of a scrape that has returned, has issued one, whatever earlier scrapes *)
(* got.                                                                    *)
(***************************************************************************)
C10_OneGetEach ==
    \A c \in Cycles : \A f \in Fetches :
       /\ gets[c][f] <= 1
       /\ resp[c][f].got => gets[c][f] = 1
       /\ phase[c] = "returned" => gets[c][f] = 1

\* two returned scrapes that got the same info answer and the same failed
\* status GET, each with one GET per resource
C10_Witness ==
    \E c, d \in Cycles :
       /\ c # d
       /\ phase[c] = "returned" /\ phase[d] = "returned"
       /\ resp[c]["info"].res = resp[d]["info"].res
       /\ Failed(c, "status") /\ Failed(d, "status")
       /\ \A f \in Fetches : gets[c][f] = 1 /\ gets[d][f] = 1

(***************************************************************************)
(* C11: the label values of the metrics.  The program text fixes the       *)
(* values of three label names; every other label value is a string of     *)
(* the printer's answer.                                                   *)
(***************************************************************************)
FixedLabelValues(label) ==
    CASE label = "sensor" -> {<<"n", "o", "z", "z", "l", "e">>, <<"b", "e", "d">>}
      [] label = "fan" -> {<<"h", "o", "t", "e", "n", "d">>, <<"p", "r", "i", "n", "t">>}
      [] label = "axis" -> {<<"x">>, <<"y">>, <<"z">>}
      [] OTHER -> {}

LabelsFixed(m) == \A kv \in m.labels : kv[2] \in FixedLabelValues(kv[1])

\* the metrics whose labels carry strings of the printer's answer
StringMetrics ==
    {Namespaced("printer_info"), Namespaced("printer_state"), Namespaced("job_state")}

\* C11 as stated: every label value of every metric sent in a scrape is one
\* of a fixed set known for the label, whatever the printer answered.
C11_LabelsFixed ==
    \A c \in Cycles : \A e \in BagToSet(ch[c]) : LabelsFixed(e.m)

\* C11 amended: every label value of every metric other than printer_info,
\* printer_state and job_state is one of the fixed set of its label; the
\* labels of those three are strings of the printer's answer.
C11_LabelsFixedButStrings ==
    \A c \in Cycles : \A e \in BagToSet(ch[c]) :
       e.m.name \notin StringMetrics => LabelsFixed(e.m)

\* a returned scrape with a sensor, an axis and a fan metric, and with a
\* printer_info metric whose hostname label is a name the printer gave
C11_Witness ==
    \E c \in Cycles :
       /\ phase[c] = "returned"
       /\ \A l \in {"sensor", "axis", "fan"} :
            \E e \in BagToSet(ch[c]) : \E kv \in e.m.labels : kv[1] = l
       /\ \E e \in BagToSet(ch[c]) :
            /\ e.m.name = Namespaced("printer_info")
            /\ <<"hostname", <<"m", "k", "4">> >> \in e.m.labels

(***************************************************************************)
(* C16: a goroutine of Collect sends either metrics of its response or one *)
(* error metric, never both: at no moment of a scrape does the channel     *)
(* hold an error metric and a gauge sent by the same goroutine; a          *)
(* goroutine that is done after a failure has sent its one error metric    *)
(* and nothing else, and one that is done after a success has sent no      *)
(* error metric.                                                           *)
(***************************************************************************)
GaugesBy(c, f) == {e \in EntriesBy(c, f) : e.m.kind = "gauge"}

C16_AllOrNothing ==
    \A c \in Cycles : \A f \in Fetches :
       /\ ErrorsBy(c, f) = {} \/ GaugesBy(c, f) = {}
       /\ (pc[c][f] = "done" /\ Failed(c, f)) =>
             /\ GaugesBy(c, f) = {}
             /\ Cardinality(ErrorsBy(c, f)) = 1
             /\ \A e \in ErrorsBy(c, f) : CopiesIn(e, ch[c]) = 1
       /\ (pc[c][f] = "done" /\ Succeeded(c, f)) => ErrorsBy(c, f) = {}

\* a returned scrape in which one goroutine sent gauges only and another
\* its error metric only, after a body that did not decode
C16_Witness ==
    \E c \in Cycles :
       /\ phase[c] = "returned"
       /\ \E f, g \in Fetches :
            /\ Succeeded(c, f) /\ Cardinality(GaugesBy(c, f)) > 1
            /\ ErrorsBy(c, f) = {}
            /\ Failed(c, g) /\ FailureOf(g, resp[c][g].res) = DecodeErr
            /\ GaugesBy(c, g) = {} /\ ErrorsBy(c, g) # {}

(***************************************************************************)
(* C17: the metric of the strings.  After a 200 response that decoded, the *)
(* goroutine has sent, when it is done, exactly one printer_info,          *)
(* printer_state or job_state metric, of value 1; its state label is the   *)
(* state string in lower case and its hostname and serial labels are the   *)
(* strings as given; a key that is omitted or null gives the empty string. *)
(***************************************************************************)
StringMetricOf(f) ==
    CASE f = "info" -> Namespaced("printer_info")
      [] f = "status" -> Namespaced("printer_state")
      [] f = "job" -> Namespaced("job_state")

\* the lower-case forms of the strings the printer gives
LowerCaseForm(s) ==
    CASE s = <<"I", "D", "L", "E">> -> <<"i", "d", "l", "e">>
      [] s = <<"P", "r", "i", "n", "t", "i", "n", "g">>
           -> <<"p", "r", "i", "n", "t", "i", "n", "g">>
      [] s = <<"B", "u", "s", "y">> -> <<"b", "u", "s", "y">>
      [] OTHER -> s

StringLabels(f, body) ==
    IF f = "info"
    THEN {<<"hostname", StringOf(f, body, "hostname")>>,
          <<"serial", StringOf(f, body, "serial")>>}
    ELSE {<<"state", LowerCaseForm(StringOf(f, body, "state"))>>}

C17_StringMetricAlways ==
    \A c \in Cycles : \A f \in Fetches :
       (DecodedOK(c, f) /\ pc[c][f] = "done") =>
          LET es == {e \in EntriesBy(c, f) : e.m.name = StringMetricOf(f)} IN
          /\ Cardinality(es) = 1
          /\ \A e \in es :
               /\ CopiesIn(e, ch[c]) = 1
               /\ e.m.value = One
               /\ e.m.labels = StringLabels(f, resp[c][f].res.body)

\* a returned scrape whose status gave the state with a capital, sent in
\* lower case, and whose job body had no state key, sent as the empty string
C17_Witness ==
    \E c \in Cycles :
       /\ phase[c] = "returned"
       /\ DecodedOK(c, "status") /\ DecodedOK(c, "job") /\ DecodedOK(c, "info")
       /\ StringOf("status", resp[c]["status"].res.body, "state")
             = <<"P", "r", "i", "n", "t", "i", "n", "g">>
       /\ \E e \in EntriesBy(c, "status") :
            e.m.labels = {<<"state", <<"p", "r", "i", "n", "t", "i", "n", "g">> >>}
       /\ RawOf("job", resp[c]["job"].res.body, "state").k = "absent"
       /\ \E e \in EntriesBy(c, "job") : e.m.labels = {<<"state", EmptyString>>}

(***************************************************************************)
(* C18: what a scrape hands over is a function of the three responses.     *)
(* When Collect has returned, the channel holds, as a multiset, what each  *)
(* of the three functions sends for its response when it runs alone, and   *)
(* its error metric if it returned an error: however the three goroutines  *)
(* and their sends were interleaved, nothing is missing and nothing is     *)
(* there twice.                                                            *)
(***************************************************************************)
RECURSIVE BagOf(_)
BagOf(s) == IF s = << >> THEN EmptyBag ELSE SetToBag({Head(s)}) (+) BagOf(Tail(s))

SendsAlone(c, f) ==
    LET r == Run(f, resp[c][f].res)
        all == r.out \o (IF r.err # NoErr THEN <<InvalidMetric(r.err)>> ELSE << >>)
    IN  BagOf([i \in 1..Len(all) |-> [by |-> f, cyc |-> c, m |-> all[i]]])

C18_OutcomeDetermined ==
    \A c \in Cycles :
       phase[c] = "returned" =>
          ch[c] = SendsAlone(c, "info") (+) SendsAlone(c, "status") (+) SendsAlone(c, "job")

\* a returned scrape in which two goroutines sent several gauges each and
\* the third its error metric
C18_Witness ==
    \E c \in Cycles :
       /\ phase[c] = "returned"
       /\ Cardinality(GaugesBy(c, "info")) > 1
       /\ Cardinality(GaugesBy(c, "status")) > 2
       /\ Failed(c, "job") /\ ErrorsBy(c, "job") # {}

(***************************************************************************)
(* The proxy handler.  A call is forwarded once ServeHTTP has handed a     *)
(* request to client.Do.                                                   *)
(***************************************************************************)
Forwarded(p) == hpc[p] \in {"pending", "done"} /\ outReq[p] # None

\* C12 as stated: the request handed to client.Do is for the printer's
\* address joined with the inbound path and has the method, the body and the
\* headers of the inbound request.
C12_ForwardsSame ==
    \A p \in Calls :
       Forwarded(p) =>
          /\ outReq[p].uri = [base |-> "address", path |-> inReq[p].path]
          /\ outReq[p].method = inReq[p].method
          /\ outReq[p].body = inReq[p].body
          /\ outReq[p].header = inReq[p].header

(***************************************************************************)
(* C13: when client.Do returned a response, what ServeHTTP wrote has the   *)
(* status code, the headers and the body of that response, whatever the    *)
(* status code: a 404 or a 500 of the printer is relayed as it is.         *)
(***************************************************************************)
C13_RelaysVerbatim ==
    \A p \in Calls :
       (hpc[p] = "done" /\ upRes[p] # None /\ upRes[p].ok) =>
          /\ written[p].code = upRes[p].code
          /\ written[p].header = upRes[p].header
          /\ written[p].body = upRes[p].body

\* two finished calls, one relayed a 404 and the other a 500 of the
\* printer, with the printer's header and body
C13_Witness ==
    \E p, q \in Calls :
       /\ hpc[p] = "done" /\ hpc[q] = "done"
       /\ upRes[p] # None /\ upRes[p].ok /\ upRes[p].code = 404
       /\ written[p].code = 404 /\ written[p].body = <<"Not Found">>
       /\ upRes[q] # None /\ upRes[q].ok /\ upRes[q].code = 500
       /\ written[q].code = 500 /\ written[q].body = <<"busy">>
       /\ <<"Retry-After", "1">> \in written[q].header

(***************************************************************************)
(* C14: the four local failures of a call, in the order of the steps:      *)
(* joining the URL, reading the inbound body, building the outbound        *)
(* request, client.Do.  Each ends the call with status 500 and the error   *)
(* text (and the newline http.Error adds) as the body; after one of the    *)
(* first three nothing was handed to client.Do; after any of them there is *)
(* no response of the printer, so nothing of one is in what was written.   *)
(***************************************************************************)
FailsBeforeDo(p) ==
    inReq[p] # None
    /\ (~addrOK \/ ~inReq[p].readable \/ inReq[p].method \notin {"GET", "POST", "DELETE"})

TextBeforeDo(p) ==
    IF ~addrOK THEN "parse address"
    ELSE IF ~inReq[p].readable THEN "read body"
    ELSE "invalid method"

DoFailed(p) == upRes[p] # None /\ ~upRes[p].ok

C14_LocalFailures ==
    \A p \in Calls :
       hpc[p] = "done" =>
          /\ FailsBeforeDo(p) =>
                /\ written[p].code = 500
                /\ written[p].body = <<TextBeforeDo(p), "\n">>
                /\ doCalls[p] = 0 /\ outReq[p] = None /\ upRes[p] = None
          /\ DoFailed(p) =>
                /\ written[p].code = 500
                /\ written[p].body = <<upRes[p].why, "\n">>

\* two finished calls: the body of one could not be read, and it was
\* answered 500 with nothing sent to the printer; client.Do of the other
\* failed, and it was answered 500 with the error text
C14_Witness ==
    \E p, q \in Calls :
       /\ hpc[p] = "done" /\ hpc[q] = "done"
       /\ addrOK /\ ~inReq[p].readable
       /\ written[p].code = 500 /\ doCalls[p] = 0
       /\ DoFailed(q) /\ doCalls[q] = 1
       /\ written[q].body = <<"connection refused", "\n">>

(***************************************************************************)
(* C15: client.Do is called at most once per inbound request, and once for *)
(* every request that got past the three steps before it, whether client.Do*)
(* failed and whatever the other calls were: two calls with the same       *)
(* request give two calls of client.Do.                                    *)
(***************************************************************************)
C15_OneUpstreamCallEach ==
    \A p \in Calls :
       /\ doCalls[p] <= 1
       /\ (hpc[p] \in {"pending", "done"} /\ ~FailsBeforeDo(p)) => doCalls[p] = 1
       /\ (hpc[p] \in {"idle", "serving"} \/ FailsBeforeDo(p)) => doCalls[p] = 0
       /\ \A q \in Calls \ {p} :
            (Forwarded(p) /\ Forwarded(q) /\ inReq[p] = inReq[q])
               => doCalls[p] + doCalls[q] = 2

\* two finished calls with the same POST, each handed to client.Do once;
\* client.Do failed for one of them
C15_Witness ==
    \E p, q \in Calls :
       /\ p # q
       /\ hpc[p] = "done" /\ hpc[q] = "done"
       /\ inReq[p] = inReq[q] /\ inReq[p].method = "POST"
       /\ DoFailed(p) /\ upRes[q].ok
       /\ doCalls[p] = 1 /\ doCalls[q] = 1

(***************************************************************************)
(* C19: a scrape that has started returns.                                 *)
(***************************************************************************)
\* C19 as stated: under fair scheduling of the goroutines, every call of
\* Collect that has started returns in the end.
C19_EventuallyReturns ==
    \A c \in Cycles : (phase[c] = "running") ~> (phase[c] = "returned")

====
